---- MODULE Spec2Model ----
(***************************************************************************)
(* State-machine model of the acquisition session of MYOstack_GUI.py:      *)
(* the GUI object's buffers and cursors, the serial monitor, the playback  *)
(* blob, the recording handles, and one action per UI handler and per      *)
(* tick (GUI.updateListening).                                             *)
(*                                                                         *)
(* Conventions.                                                            *)
(*  - Text is a sequence of one-character strings; CR and LF are the two   *)
(*    characters of the row separator.                                     *)
(*  - Buffers are indexed from 0 as in the source.                         *)
(*  - Time is counted in units of dt = 1/fs (the source adds the float dt).*)
(*  - Sample values are integers: the float expressions of the source are  *)
(*    evaluated with floor division (\div).                                *)
(*  - The array sizes of the source (dataWidth, 9 channels, 100 records    *)
(*    per playback tick, 2000 FFT points) are scaled down; they are the    *)
(*    bounds of the model.                                                 *)
(*  - An exception that escapes a handler ends the session: PyQt5 (>= 5.5) *)
(*    calls qFatal() on an unhandled exception in a slot.  The variable    *)
(*    crashed records it; the other variables keep the values they had     *)
(*    when the exception was raised.                                       *)
(***************************************************************************)
EXTENDS Integers, Sequences, FiniteSets, TLC

\* ------------------------------------------------------------ bounds
\* dataWidth, scaled down from int((10 + 0.5) * 1001)
DataWidth == 4
\* number of channels, scaled down from 9
NCh == 2
\* records decoded by one playback tick, scaled down from 100
Batch == 2
\* points of the spectral window, scaled down from 2000
FftN == 2
\* live time (in dt) after which the model stops feeding the serial port
MaxTime == 5

\* ------------------------------------------------- program constants
StitchMin == 2
SliderScale == 100
SliderMax == 99
U16Max == 65535
TwoFs == 2002
Wa == 6
DefaultAlpha == 95
AlphaMin == 0
AlphaMax == 100
PassMin == 10
PassMax == 500
Fs == 1001
AlphaDen == 100

Channels == 0..(NCh - 1)
Slots == 0..(DataWidth - 1)
RecBytes == NCh * 2

Max(S) == CHOOSE m \in S : \A n \in S : n <= m
Min(S) == CHOOSE m \in S : \A n \in S : m <= n
Abs(n) == IF n < 0 THEN -n ELSE n
\* int(num/den) of Python for den > 0: truncation towards zero
TruncDiv(num, den) == IF num >= 0 THEN num \div den ELSE -((-num) \div den)

\* ------------------------------------------------------------ text
CR == "\r"
LF == "\n"
SEMI == ";"
\* a character for which str.isdigit() is True and int() raises ValueError
SUP2 == "sup2"
DecimalDigits == {"0", "1", "2", "3", "4", "5", "6", "7", "8", "9"}
DigitVal(c) ==
  CASE c = "0" -> 0 [] c = "1" -> 1 [] c = "2" -> 2 [] c = "3" -> 3
    [] c = "4" -> 4 [] c = "5" -> 5 [] c = "6" -> 6 [] c = "7" -> 7
    [] c = "8" -> 8 [] c = "9" -> 9

\* str.isdigit(): non-empty and every character is a digit
IsDigit(f) == Len(f) > 0 /\ \A p \in 1..Len(f) : f[p] \in DecimalDigits \cup {SUP2}
\* int(f) succeeds on a string that passed isdigit()
IntParses(f) == \A p \in 1..Len(f) : f[p] \in DecimalDigits
RECURSIVE IntOf(_)
IntOf(f) == IF f = <<>> THEN 0
            ELSE 10 * IntOf(SubSeq(f, 1, Len(f) - 1)) + DigitVal(f[Len(f)])

\* msg[a:b] of Python, a and b possibly negative
PySlice(msg, a, b) ==
  LET n == Len(msg)
      lo == IF a < 0 THEN Max({0, n + a}) ELSE Min({a, n})
      hi == IF b < 0 THEN Max({0, n + b}) ELSE Min({b, n})
  IN SubSeq(msg, lo + 1, hi)

\* msg.rfind("\r", 1): the last 0-based index >= 1 holding CR, or -1
RFindCR(msg) ==
  LET S == {p \in 2..Len(msg) : msg[p] = CR}
  IN IF S = {} THEN -1 ELSE Max(S) - 1

\* msg.split('\r\n')
RECURSIVE SplitCRLF(_)
SplitCRLF(msg) ==
  LET S == {p \in 1..(Len(msg) - 1) : msg[p] = CR /\ msg[p + 1] = LF}
  IN IF S = {} THEN <<msg>>
     ELSE LET p == Min(S)
          IN <<SubSeq(msg, 1, p - 1)>> \o SplitCRLF(SubSeq(msg, p + 2, Len(msg)))

\* st.split(';')
RECURSIVE SplitSemi(_)
SplitSemi(st) ==
  LET S == {p \in 1..Len(st) : st[p] = SEMI}
  IN IF S = {} THEN <<st>>
     ELSE LET p == Min(S)
          IN <<SubSeq(st, 1, p - 1)>> \o SplitSemi(SubSeq(st, p + 1, Len(st)))

\* ------------------------------------------------ protocol versions
Versions == {"v2.0", "v1.1", "v1.0"}
\* coefficient = CoefNum / CoefDen(ver): 3.25/4.094 or 3.25/1.024
CoefNum == 3250
CoefDen(ver) == IF ver = "v1.0" \/ ver = "v2.0" THEN 4094 ELSE 1024
RefOf(ver) == IF ver = "v1.0" \/ ver = "v2.0" THEN 2048 ELSE 1024
\* (raw - ref)*coefficient/gain
Scaled(raw, ver, g) == ((raw - RefOf(ver)) * CoefNum) \div (CoefDen(ver) * g)

\* ------------------------------------------------------- buffers
\* Arrays are sequences; PyAt is Python's arr[i] with i possibly negative.
PyAt(arr, i) == arr[(i % Len(arr)) + 1]
PySet(arr, i, v) == [arr EXCEPT ![(i % Len(arr)) + 1] = v]
ZeroRow == [k \in 1..DataWidth |-> 0]
ZeroData == [i \in Channels |-> ZeroRow]
ZeroChan == [i \in Channels |-> 0]
ZeroMA == [i \in Channels |-> <<0, 0, 0>>]
\* msg_end is a str, the int 0 of initUI, or the bytearray([0]) of refresh
StrVal(s) == [kind |-> "str", s |-> s]
IntZero == [kind |-> "int", s |-> <<>>]
BytesZero == [kind |-> "bytearray", s |-> <<>>]

\* np.concatenate((arr[l:dataWidth], arr[0:l]))
\* A view that is not unrolled: the ring in storage order
StorageOrder(arr, cur) == arr

\* np.concatenate((a[l:dataWidth], a[0:l])) (lines 583, 585, 588)
Unrolled(arr, cur) == PySlice(arr, cur, DataWidth) \o PySlice(arr, 0, cur)

RECURSIVE SumSeq(_)
SumSeq(q) == IF q = <<>> THEN 0 ELSE Head(q) + SumSeq(Tail(q))

\* The fields of the GUI object that a tick reads and writes, as one record:
\* the handlers below are sequential programs over it.  err is the exception
\* that escaped ("none" if none); wlog lists the buffer writes of the handler
\* and dlog the record indices it unpacked (both for stating properties).
\* GUI.refresh (lines 422-431):
RefreshKeepsFilterState(s) ==
  [s EXCEPT !.l = 0, !.Time = ZeroRow, !.Data = ZeroData,
            !.DataEnvelope = ZeroData, !.FFT = ZeroChan,
            !.msg_end = BytesZero, !.ms_len = 0, !.slider = 0]

Refresh(s) ==
  [s EXCEPT !.l = 0, !.Time = ZeroRow, !.Data = ZeroData,
            !.DataEnvelope = ZeroData, !.MA = ZeroMA, !.MA_alpha = DefaultAlpha,
            !.Y0 = ZeroChan, !.X0 = ZeroChan, !.FFT = ZeroChan,
            !.msg_end = BytesZero, !.ms_len = 0, !.slider = 0]

\* A decoder without the wrap test: the cursor is used as it is
CursorNoWrap(cur) == cur

\* if l == dataWidth: l = 0 (lines 703-704 and 653-654)
WrapCursor(cur) == IF cur = DataWidth THEN 0 ELSE cur

\* ------------------------------------------------ live decode
\* bytes.decode(errors='ignore'): undecodable bytes are dropped
BADBYTE == "xff"
Decode(raw) == SelectSeq(raw, LAMBDA c : c # BADBYTE)


\* A record with the channels in reverse order
PackedReversed(data) == [k \in 1..NCh |-> data[NCh - k]]

\* struct.pack("H H ...", data[0], ...): the words of one record, in
\* channel order (lines 715-716)
Packed(data) == [k \in 1..NCh |-> data[k - 1]]

\* One element st of msg.split('\r\n') (lines 700-726).
LiveRow(s, st, ver, gain, recording) ==
  LET f == SplitSemi(st)
  IN IF Len(f) # NCh THEN s
     ELSE
       LET l1 == WrapCursor(s.l)
           raising == {i \in Channels : IsDigit(f[i + 1]) /\ ~IntParses(f[i + 1])}
           k == IF raising = {} THEN NCh ELSE Min(raising)
           data == [i \in Channels |->
                      IF IsDigit(f[i + 1]) /\ IntParses(f[i + 1])
                      THEN IntOf(f[i + 1]) ELSE 0]
           val(i) == IF IsDigit(f[i + 1]) THEN Scaled(data[i], ver, gain[i]) ELSE 0
           D1 == [i \in Channels |->
                    IF i < k THEN PySet(s.Data[i], l1, val(i)) ELSE s.Data[i]]
           ts == PyAt(s.Time, l1 - 1) + 1
           T1 == PySet(s.Time, l1, ts)
           entry == [src |-> "live", at |-> l1, chans |-> {i \in Channels : i < k},
                     tat |-> l1, from |-> s.l, to |-> l1 + 1, row |-> f, rec |-> -1,
                     vals |-> [i \in Channels |-> val(i)], ts |-> ts,
                     seek |-> FALSE, sl |-> s.slider, restart |-> FALSE,
                     packed |-> IF recording THEN Packed(data) ELSE <<>>,
                     ver |-> ver, gain |-> gain]
       IN IF k < NCh
          THEN [s EXCEPT !.l = l1, !.Data = D1, !.err = "ValueError",
                         !.wlog = @ \o <<[entry EXCEPT !.tat = -1, !.to = -1,
                                                       !.packed = <<>>]>>]
          ELSE IF recording /\ \E i \in Channels : data[i] > U16Max
          THEN [s EXCEPT !.l = l1, !.Data = D1, !.Time = T1, !.err = "struct.error",
                         !.wlog = @ \o <<[entry EXCEPT !.to = -1, !.packed = <<>>]>>]
          ELSE [s EXCEPT !.l = l1 + 1, !.Data = D1, !.Time = T1,
                         !.ms_len = @ + 1, !.wlog = @ \o <<entry>>,
                         \* lines 714-723: one record and one line per row
                         !.binLen = IF recording THEN @ + RecBytes ELSE @,
                         !.txtLines = IF recording THEN @ + 1 ELSE @]

RECURSIVE LiveRows(_, _, _, _, _)
LiveRows(s, rows, ver, gain, recording) ==
  IF rows = <<>> \/ s.err # "none" THEN s
  ELSE LiveRows(LiveRow(s, Head(rows), ver, gain, recording), Tail(rows),
                ver, gain, recording)

\* The text handed to split('\r\n') (lines 694-698): the retained fragment is
\* prefixed only when the write cursor is beyond StitchMin.
Stitched(s, msg) ==
  IF s.l > StitchMin THEN s.msg_end.s \o PySlice(msg, 0, RFindCR(msg)) ELSE msg

\* GUI.readFromSerial on the bytes raw returned by serialRead (lines 690-726)
ReadFromSerial(s, raw, ver, gain, recording) ==
  LET msg == Decode(raw)
  IN IF Len(msg) < 2 THEN s
     ELSE
       LET n == RFindCR(msg)
           s1 == [s EXCEPT !.msg_end = StrVal(PySlice(msg, n, Len(msg)))]
       IN IF s.l > StitchMin /\ s.msg_end.kind # "str"
          THEN [s1 EXCEPT !.err = "TypeError"]
          ELSE LiveRows(s1, SplitCRLF(Stitched(s, msg)), ver, gain, recording)


\* ------------------------------------------------ playback decode
\* struct.unpack("H H ...", b): native (little-endian) unsigned 16-bit words
Unpack(b) == [i \in Channels |-> b[2 * i + 1] + 256 * b[2 * i + 2]]
\* int(len(loadData)/9/2)
LoadDataLen(blob) == Len(blob) \div RecBytes
\* int(sliderpos/loadDataLen*100)
DerivedPos(pos, n) == (pos * SliderScale) \div n
\* QScrollBar.setValue clamps to the range 0..99
SliderSet(v) == Max({0, Min({v, SliderMax})})
\* sliderpos + int(slider*loadDataLen/100 - sliderpos)
SeekTarget(pos, sl, n) == pos + TruncDiv(sl * n - SliderScale * pos, SliderScale)

\* One iteration of the while loop of GUI.readFromFile (lines 650-676).
FileIter(s, blob, n, ver, gain) ==
  LET l1 == WrapCursor(s.l)
      sA == IF s.sliderpos > n - 2
            THEN [Refresh([s EXCEPT !.l = l1]) EXCEPT !.sliderpos = 0, !.slider = 0]
            ELSE [s EXCEPT !.l = l1]
      pos == sA.sliderpos
      bytes == PySlice(blob, pos * RecBytes, (pos + 1) * RecBytes)
  IN IF Len(bytes) # RecBytes
     THEN [sA EXCEPT !.err = "struct.error", !.dlog = @ \o <<pos>>]
     ELSE
       LET w == Unpack(bytes)
           vals == [i \in Channels |-> Scaled(w[i], ver, gain[i])]
           sB == [sA EXCEPT !.Data = [i \in Channels |-> PySet(sA.Data[i], sA.l, vals[i])],
                            !.dlog = @ \o <<pos>>]
           seek == sB.slider # DerivedPos(pos, n)
           pos2 == IF seek THEN SeekTarget(pos, sB.slider, n) ELSE pos
           sC == IF seek
                 THEN [Refresh(sB) EXCEPT !.l = sB.l, !.sliderpos = pos2]
                 ELSE sB
           entry == [src |-> "file", at |-> sA.l, chans |-> Channels, tat |-> sC.l,
                     from |-> s.l, to |-> sC.l + 1, row |-> <<>>, rec |-> pos,
                     vals |-> [i \in Channels |-> PyAt(sC.Data[i], sC.l)], ts |-> pos2,
                     seek |-> seek, sl |-> sB.slider,
                     restart |-> s.sliderpos > n - 2, packed |-> <<>>,
                     ver |-> ver, gain |-> gain]
       IN IF n = 0 THEN [sB EXCEPT !.err = "ZeroDivisionError"]
          ELSE [sC EXCEPT !.Time = PySet(sC.Time, sC.l, pos2),
                          !.l = sC.l + 1,
                          !.ms_len = @ + 1,
                          !.sliderpos = pos2 + 1,
                          !.slider = SliderSet(DerivedPos(pos2 + 1, n)),
                          !.wlog = @ \o <<entry>>]

\* struct.pack("H H ...", data[0], ...) (lines 715-716): each word as two
\* bytes, low byte first
StructPack(words) ==
  [j \in 1..(2 * Len(words)) |->
     IF j % 2 = 1 THEN words[(j + 1) \div 2] % 256
     ELSE (words[j \div 2] \div 256) % 256]

\* lines 656-657: the values readFromFile stores for one record of the blob
PlaybackValues(bytes, ver, gain) ==
  [i \in Channels |-> Scaled(Unpack(bytes)[i], ver, gain[i])]

\* GUI.readFromFile: Batch iterations, unless one raises
RECURSIVE ReadFromFile(_, _, _, _, _, _)
ReadFromFile(s, blob, n, ver, gain, j) ==
  IF j = 0 \/ s.err # "none" THEN s
  ELSE ReadFromFile(FileIter(s, blob, n, ver, gain), blob, n, ver, gain, j - 1)

\* ------------------------------------------------ envelope and spectrum
\* The detector without its rectifier: the high-pass output is averaged with
\* its sign
MovingAverageUnrectified(m, alpha, data) ==
  LET HPF == (TwoFs * (data - m.X0) - (Wa - TwoFs) * m.Y0) \div (TwoFs + Wa)
      m0 == ((AlphaDen - alpha) * HPF + alpha * m.MA[1]) \div AlphaDen
      m1 == ((AlphaDen - alpha) * m0 + alpha * m.MA[2]) \div AlphaDen
      m2 == ((AlphaDen - alpha) * m1 + alpha * m.MA[3]) \div AlphaDen
  IN [MA |-> <<m0, m1, m2>>, Y0 |-> HPF, X0 |-> data, out |-> m2 * 2]

\* MovingAverage.movingAverage(i, data) (lines 825-836) on the state
\* m = [MA, Y0, X0] of one channel; returns the new state, out = 2*MA[2]
MovingAverageStep(m, alpha, data) ==
  LET HPF == (TwoFs * (data - m.X0) - (Wa - TwoFs) * m.Y0) \div (TwoFs + Wa)
      d == IF HPF < 0 THEN -HPF ELSE HPF
      m0 == ((AlphaDen - alpha) * d + alpha * m.MA[1]) \div AlphaDen
      m1 == ((AlphaDen - alpha) * m0 + alpha * m.MA[2]) \div AlphaDen
      m2 == ((AlphaDen - alpha) * m1 + alpha * m.MA[3]) \div AlphaDen
  IN [MA |-> <<m0, m1, m2>>, Y0 |-> HPF, X0 |-> data, out |-> m2 * 2]

\* lines 608-609: for j in range(dataWidth - ms_len, dataWidth), on the
\* envelope E and the state m of one channel
RECURSIVE EnvelopeLoop(_, _, _, _, _)
EnvelopeLoop(m, alpha, D, j, E) ==
  IF j >= DataWidth THEN [m |-> m, E |-> E, err |-> "none"]
  ELSE IF j < -DataWidth THEN [m |-> m, E |-> E, err |-> "IndexError"]
  ELSE LET m1 == MovingAverageStep(m, alpha, PyAt(D, j))
       IN EnvelopeLoop(m1, alpha, D, j + 1, PySet(E, j, m1.out))

\* GUI.butter_bandpass_filter (lines 729-735): butter() is called with the
\* band [low/nyq, high/nyq] whatever the cut-offs are.  scipy.signal is not
\* part of the source: butter() raises ValueError for an edge outside
\* 0 < Wn < 1; for a band whose edges are not increasing it raises
\* ValueError, or (older releases, strict false) returns a numerator of
\* zeros, with which lfilter yields zeros.  The filtering of a proper band is
\* represented by a first difference, which like any band-pass removes a
\* constant and is not the identity.
ButterBandpassFilter(D, bp) ==
  LET call == <<<<bp.low, bp.high>>>>
  IN IF 2 * bp.low <= 0 \/ 2 * bp.high >= Fs
     THEN [y |-> D, err |-> "ValueError", calls |-> call]
     ELSE IF bp.low >= bp.high
     THEN IF bp.strict
          THEN [y |-> D, err |-> "ValueError", calls |-> call]
          ELSE [y |-> [k \in 1..Len(D) |-> 0], err |-> "none", calls |-> call]
     ELSE [y |-> [k \in 1..Len(D) |-> IF k = 1 THEN D[1] ELSE D[k] - D[k - 1]],
           err |-> "none", calls |-> call]

\* The notch and band-pass stages (lines 590-598) on the unrolled window D
\* of one channel; the notch check box is unchecked
Filtered(D, bp) ==
  IF bp.on THEN ButterBandpassFilter(D, bp)
  ELSE [y |-> D, err |-> "none", calls |-> <<>>]

\* The body of the loop over the active channels (lines 586-616), channel i.
\* Line 607 copies DataEnvelope[i][ms_len:] over DataEnvelope[i][:dataWidth-ms_len];
\* numpy raises ValueError when the two slices differ in length (a source of
\* length 1 is broadcast).
ChannelDsp(s, i) ==
  LET F == Filtered(Unrolled(s.Data[i], s.l), s.bp)
      D == F.y
      src == PySlice(s.DataEnvelope[i], s.ms_len, DataWidth)
      dest == PySlice(s.DataEnvelope[i], 0, DataWidth - s.ms_len)
      moved == IF Len(src) = Len(dest) THEN src
               ELSE [k \in 1..Len(dest) |-> src[1]]
      E1 == moved \o PySlice(s.DataEnvelope[i], Len(dest), DataWidth)
      r == EnvelopeLoop([MA |-> s.MA[i], Y0 |-> s.Y0[i], X0 |-> s.X0[i]],
                        s.MA_alpha, D, DataWidth - s.ms_len, E1)
  IN IF F.err # "none"
     THEN [s EXCEPT !.err = F.err, !.designed = @ \o F.calls]
     ELSE IF Len(src) # Len(dest) /\ Len(src) # 1
     THEN [s EXCEPT !.err = "ValueError", !.designed = @ \o F.calls,
                    !.shifts = @ \o <<s.ms_len>>]
     ELSE [s EXCEPT !.DataEnvelope[i] = r.E, !.err = r.err,
                    !.MA[i] = r.m.MA, !.Y0[i] = r.m.Y0, !.X0[i] = r.m.X0,
                    !.designed = @ \o F.calls, !.shifts = @ \o <<s.ms_len>>]

\* lines 626-629, channel i: the first bin of abs(fft(Data[i][-2001:-1]))/2000,
\* blended with the previous estimate
ChannelFft(s, i) ==
  LET D == Filtered(Unrolled(s.Data[i], s.l), s.bp).y
      Y == Abs(SumSeq(PySlice(D, -(FftN + 1), -1))) \div FftN
  IN [s EXCEPT !.FFT[i] = (Y + @) \div 2]

RECURSIVE DspLoop(_, _, _)
DspLoop(s, i, sensors) ==
  IF i >= sensors \/ s.err # "none" THEN s
  ELSE DspLoop(ChannelDsp(s, i), i + 1, sensors)

RECURSIVE FftLoop(_, _, _)
FftLoop(s, i, sensors) ==
  IF i >= sensors THEN s ELSE FftLoop(ChannelFft(s, i), i + 1, sensors)

\* lines 586-605, channel i: the series handed to the raw plot,
\* p[i].setData(y=Data[i], x=Time), when the raw signal is shown
Displayed(D, cur, bp) == Filtered(Unrolled(D, cur), bp).y

\* The filtering block of GUI.updateListening (lines 582-632)
Dsp(s, sensors) ==
  LET s1 == DspLoop(s, 0, sensors)
  IN IF s1.err # "none" THEN s1
     ELSE FftLoop([s1 EXCEPT !.ms_len = 0], 0, sensors)


\* ------------------------------------------------ playback files
\* The files the file dialog can return: 0 bytes, fewer bytes than one
\* record, one record, three records and a trailing byte, five records.
FileNames == {"empty", "short", "one", "three", "five"}
\* the files offered in the session specification
SessionFiles == {"short", "five"}
\* record k of a file: channel i holds the raw value 2050 + 2*k + i
\* (low byte first; 8*256 = 2048)
RecordBytes(k) == [j \in 1..RecBytes |-> IF j % 2 = 1 THEN 2 + 2 * k + (j \div 2) ELSE 8]
RECURSIVE Records(_, _)
Records(k, n) == IF k >= n THEN <<>> ELSE RecordBytes(k) \o Records(k + 1, n)
FileBlob(name) ==
  CASE name = "empty" -> <<>>
    [] name = "short" -> SubSeq(RecordBytes(0), 1, RecBytes - 1)
    [] name = "one" -> Records(0, 1)
    [] name = "three" -> Records(0, 3) \o <<7>>
    [] name = "five" -> Records(0, 5)


\* ------------------------------------------------------------ state
VARIABLES
  \* checkable actions of the toolbar: isChecked() and isEnabled()
  liveChecked, playChecked, recChecked,
  liveEnabled, playEnabled, recEnabled, refreshEnabled, sliderEnabled,
  sensorsEnabled, pauseEnabled, pauseChecked,
  sensorsNumber,
  \* SerialMonitor: COM # '', connect, ser.is_open, ser has a port name,
  \* and whether an open Serial object was dropped without close()
  comSet, connect, serOpen, serCfg, serLeak,
  \* playback: loadFile open, loadFileName, loadData, loadDataLen
  fileOpen, loadFileName, loadData, loadDataLen,
  \* recording: recordingFile_BIN and recordingFile_TXT open
  recBinOpen, recTxtOpen,
  \* the recording in progress: the bytes written to the binary log, the
  \* data lines written to the text log, and the number of live rows accepted
  \* while recording (all 0 when the Record action is not checked)
  binLen, txtLines, recRows,
  \* buffers, cursors and filter state of the GUI object
  l, Time, Data, DataEnvelope, MA, MA_alpha, Y0, X0, FFT, msg_end, ms_len,
  slider, sliderpos,
  \* the exception that ended the session, "none" while it runs
  crashed,
  \* history of the last step, for stating properties: its kind ("init", "tick",
  \* "refresh" for a handler that called refresh(), "sensors", "other"), the buffer
  \* writes and the records unpacked by it, the terminated rows handed to the
  \* live decode, the (serial open, file open) pairs it went through, and
  \* whether a handler called refresh() since the last playback tick ("yes";
  \* "used" after the first playback tick that follows it), and what the
  \* buffers held before the last handler that called refresh()
  last, wlog, dlog, rowsIn, srcTrace, refreshed, pre,
  \* what serialRead did in the last tick: "none" (not called), "read",
  \* "reopened" or "failed" (the read raised SerialException and the open()
  \* that follows succeeded or raised)
  serTry,
  \* the band-pass designs requested by the last step, as (low, high) pairs
  designed,
  \* the shift counts (ms_len) with which the DSP pass of the last tick moved
  \* the envelope, one per channel processed
  shifts,
  \* the filter widgets: the band-pass and envelope check boxes, the cut-off
  \* spin boxes (Hz) and the smoothing spin box (hundredths) with their
  \* enabled flags; whether the installed scipy.signal.butter rejects a band
  \* whose edges are not increasing; and the last value inside the range of
  \* the smoothing box that a request asked for
  bpChecked, passLow, passHigh, passEnabled, envChecked, alphaBox,
  alphaEnabled, butterStrict, alphaValid,
  \* the ticker thread (MainRun): where it is in run() ("idle": not started
  \* or finished, "test": at the loop test, "emit": at emit(), "sleep": in
  \* time.sleep), its flag running, and whether it is executing the tick
  \* itself
  tkPc, running, tkInSlot,
  \* the UI thread: the number of tick events posted to its event queue and
  \* not yet dispatched, and the slots it is executing, innermost last
  queue, uiStack,
  \* the serial stream of StreamSpec: the whole stream, the bytes not yet
  \* read, the rows stored so far, the number of reads, and whether the first
  \* two reads ended on a row boundary
  stream, pending, appended, reads, aligned

uiVars == <<liveChecked, playChecked, recChecked, liveEnabled, playEnabled,
            recEnabled, refreshEnabled, sliderEnabled, sensorsEnabled,
            pauseEnabled, pauseChecked,
            sensorsNumber>>
serVars == <<comSet, connect, serOpen, serCfg, serLeak>>
fileVars == <<fileOpen, loadFileName, loadData, loadDataLen>>
recVars == <<recBinOpen, recTxtOpen>>
sinkVars == <<binLen, txtLines, recRows>>
bufVars == <<l, Time, Data, DataEnvelope, MA, MA_alpha, Y0, X0, FFT, msg_end,
             ms_len, slider, sliderpos>>
histVars == <<last, wlog, dlog, rowsIn, srcTrace, refreshed, pre, serTry,
              designed, shifts>>
widgetVars == <<bpChecked, passLow, passHigh, passEnabled, envChecked,
                alphaBox, alphaEnabled, butterStrict, alphaValid>>
streamVars == <<stream, pending, appended, reads, aligned>>
threadVars == <<tkPc, running, tkInSlot, queue, uiStack>>
vars == <<uiVars, serVars, fileVars, recVars, sinkVars, bufVars, crashed,
          histVars, streamVars, widgetVars, threadVars>>

\* The GUI object's fields as the record the handlers work on
Cur ==
  [l |-> l, Time |-> Time, Data |-> Data, DataEnvelope |-> DataEnvelope,
   MA |-> MA, MA_alpha |-> MA_alpha, Y0 |-> Y0, X0 |-> X0, FFT |-> FFT,
   msg_end |-> msg_end, ms_len |-> ms_len, slider |-> slider,
   sliderpos |-> sliderpos, err |-> "none", wlog |-> <<>>, dlog |-> <<>>,
   binLen |-> binLen, txtLines |-> txtLines, recRows |-> recRows,
   bp |-> [on |-> bpChecked, low |-> passLow, high |-> passHigh,
           strict |-> butterStrict],
   designed |-> <<>>, shifts |-> <<>>]

Store(s) ==
  /\ l' = s.l /\ Time' = s.Time /\ Data' = s.Data
  /\ DataEnvelope' = s.DataEnvelope /\ MA' = s.MA /\ MA_alpha' = s.MA_alpha
  /\ Y0' = s.Y0 /\ X0' = s.X0 /\ FFT' = s.FFT /\ msg_end' = s.msg_end
  /\ ms_len' = s.ms_len /\ slider' = s.slider /\ sliderpos' = s.sliderpos
  /\ crashed' = s.err /\ wlog' = s.wlog /\ dlog' = s.dlog
  /\ binLen' = s.binLen /\ txtLines' = s.txtLines /\ recRows' = s.recRows
  /\ designed' = s.designed /\ shifts' = s.shifts

Snap(ser, file) == [ser |-> ser, file |-> file]

\* What refresh() is about to discard: is every buffer, cursor and filter
\* state different from its initial value, and where is the playback cursor
NoPre == [dirty |-> FALSE, sliderpos |-> 0]
PreRefresh ==
  [dirty |-> /\ l # 0 /\ Time # ZeroRow /\ DataEnvelope # ZeroData
             /\ \A i \in Channels : Data[i] # ZeroRow
             /\ \E i \in Channels : MA[i] # <<0, 0, 0>> /\ Y0[i] # 0 /\ X0[i] # 0
             /\ FFT # ZeroChan,
   sliderpos |-> sliderpos]

\* GUI.initUI (lines 66-100, 354-370): with a port listed the constructor
\* connects (the open may fail) and checks the Live action
InitWith(port, opened) ==
  /\ liveChecked = port /\ playChecked = FALSE /\ recChecked = FALSE
  /\ liveEnabled = TRUE /\ playEnabled = FALSE /\ recEnabled = port
  /\ refreshEnabled = port /\ sliderEnabled = FALSE /\ sensorsEnabled = port
  /\ pauseEnabled = port /\ pauseChecked = FALSE
  /\ sensorsNumber = NCh
  /\ comSet = port /\ connect = (port /\ opened) /\ serOpen = (port /\ opened)
  /\ serCfg = (port /\ opened) /\ serLeak = FALSE
  /\ fileOpen = FALSE /\ loadFileName = "" /\ loadData = <<>> /\ loadDataLen = 0
  /\ recBinOpen = FALSE /\ recTxtOpen = FALSE
  /\ binLen = 0 /\ txtLines = 0 /\ recRows = 0
  /\ l = 0 /\ Time = ZeroRow /\ Data = ZeroData /\ DataEnvelope = ZeroData
  /\ MA = ZeroMA /\ MA_alpha = DefaultAlpha /\ Y0 = ZeroChan /\ X0 = ZeroChan
  /\ FFT = ZeroChan /\ msg_end = IntZero /\ ms_len = 0
  /\ slider = 0 /\ sliderpos = 0
  /\ crashed = "none"
  /\ last = "init" /\ wlog = <<>> /\ dlog = <<>> /\ rowsIn = <<>>
  /\ serTry = "none" /\ designed = <<>> /\ shifts = <<>>
  \* lines 160-167, 177-191
  /\ bpChecked = FALSE /\ passLow = PassMin /\ passHigh = PassMax
  /\ passEnabled = FALSE /\ envChecked = TRUE /\ alphaBox = DefaultAlpha
  /\ alphaEnabled = TRUE /\ alphaValid = DefaultAlpha
  \* window.start() (lines 404-406, 861): the ticker thread is running
  /\ tkPc = "test" /\ running = TRUE /\ tkInSlot = FALSE
  /\ queue = 0 /\ uiStack = <<>>
  /\ srcTrace = <<Snap(port /\ opened, FALSE)>> /\ refreshed = "no"
  /\ pre = NoPre
  /\ appended = <<>> /\ reads = 0 /\ aligned = TRUE

Init ==
  /\ \E port \in BOOLEAN, opened \in BOOLEAN : InitWith(port, opened)
  /\ butterStrict = TRUE
  /\ stream = <<>> /\ pending = <<>>

\* ------------------------------------------------------------ handlers
\* The slot returns to the event loop that dispatched it; the ticker thread
\* is not involved.
UiReturn ==
  /\ uiStack' = (IF uiStack = <<>> THEN <<>>
                 ELSE SubSeq(uiStack, 1, Len(uiStack) - 1))
  /\ UNCHANGED <<tkPc, running, tkInSlot, queue>>

\* SerialMonitor.serialConnect (lines 785-795); ok: the open succeeds
SerialConnect(ok) ==
  IF ~connect /\ comSet
  THEN IF ok
       THEN /\ serOpen' = TRUE /\ connect' = TRUE /\ serCfg' = TRUE
            /\ serLeak' = (serLeak \/ serOpen)
       ELSE /\ connect' = FALSE /\ UNCHANGED <<serOpen, serCfg, serLeak>>
  ELSE UNCHANGED <<connect, serOpen, serCfg, serLeak>>

\* A disconnection that forgets to close the port
DisconnectionKeepsPort ==
  /\ connect' = FALSE /\ UNCHANGED <<serOpen, serCfg, serLeak>>

\* SerialMonitor.serialDisconnection (lines 797-799)
SerialDisconnection ==
  /\ serOpen' = FALSE /\ connect' = FALSE /\ UNCHANGED <<serCfg, serLeak>>

\* dataRecordingAction.setChecked(False) (lines 386, 400, 469, 485): no
\* handler runs, the recording in progress is over and its files stay open
EndRecording(s) == [s EXCEPT !.binLen = 0, !.txtLines = 0, !.recRows = 0]

\* GUI.liveFromSerial (lines 376-402), the Live action toggled by the user
LiveFromSerial ==
  /\ crashed = "none" /\ liveEnabled
  /\ liveChecked' = ~liveChecked
  /\ Store(EndRecording(Refresh(Cur)))
  /\ IF liveChecked'
     THEN /\ \E ok \in BOOLEAN : SerialConnect(ok)
          /\ playChecked' = FALSE /\ refreshEnabled' = TRUE
          /\ recEnabled' = TRUE /\ recChecked' = FALSE
          /\ sliderEnabled' = FALSE /\ sensorsEnabled' = TRUE
          /\ pauseEnabled' = TRUE
          /\ last' = "refresh"
     ELSE /\ SerialDisconnection
          /\ refreshEnabled' = FALSE /\ recEnabled' = FALSE
          /\ pauseEnabled' = FALSE
          /\ recChecked' = FALSE /\ sensorsEnabled' = FALSE
          /\ last' = "refresh"
          /\ UNCHANGED <<playChecked, sliderEnabled>>
  /\ comSet' = comSet
  /\ rowsIn' = <<>> /\ serTry' = "none" /\ refreshed' = "yes" /\ pre' = PreRefresh
  /\ srcTrace' = <<Snap(serOpen, fileOpen), Snap(serOpen', fileOpen)>>
  /\ UNCHANGED <<liveEnabled, playEnabled, sensorsNumber, pauseChecked,
                 fileVars, recVars,
                 streamVars,
                 widgetVars>>
  /\ UiReturn

\* GUI.refreshForAction (lines 434-437)
RefreshForAction ==
  /\ crashed = "none" /\ refreshEnabled
  /\ Store(Refresh(Cur))
  /\ last' = "refresh" /\ rowsIn' = <<>> /\ serTry' = "none" /\ refreshed' = "yes" /\ pre' = PreRefresh
  /\ srcTrace' = <<Snap(serOpen, fileOpen)>>
  /\ UNCHANGED <<uiVars, serVars, fileVars, recVars, streamVars,
                 widgetVars>>
  /\ UiReturn

\* A recording that opens the text log only
RecordingOpenTextOnly ==
  /\ recTxtOpen' = TRUE /\ recBinOpen' = recBinOpen
  /\ binLen' = 0 /\ txtLines' = 0 /\ recRows' = 0

\* lines 448-455: two new files named after the current second
RecordingOpen ==
  /\ recTxtOpen' = TRUE /\ recBinOpen' = TRUE
  /\ binLen' = 0 /\ txtLines' = 0 /\ recRows' = 0

\* lines 459-460
RecordingClose ==
  /\ recTxtOpen' = FALSE /\ recBinOpen' = FALSE
  /\ binLen' = 0 /\ txtLines' = 0 /\ recRows' = 0

\* GUI.dataRecording (lines 440-464), the Record action toggled by the user
DataRecording ==
  /\ crashed = "none" /\ recEnabled
  /\ recChecked' = ~recChecked
  /\ IF recChecked'
     THEN /\ sensorsEnabled' = FALSE /\ refreshEnabled' = FALSE
          /\ pauseEnabled' = FALSE
          /\ RecordingOpen
          /\ last' = "other"
     ELSE /\ refreshEnabled' = (IF ~playChecked THEN TRUE ELSE refreshEnabled)
          /\ RecordingClose
          /\ sensorsEnabled' = TRUE /\ pauseEnabled' = TRUE
          /\ last' = "other"
  /\ wlog' = <<>> /\ dlog' = <<>> /\ designed' = <<>> /\ shifts' = <<>> /\ rowsIn' = <<>>
  /\ serTry' = "none" /\ pre' = NoPre
  /\ srcTrace' = <<Snap(serOpen, fileOpen)>>
  /\ UNCHANGED <<liveChecked, playChecked, liveEnabled, playEnabled, recEnabled,
                 sliderEnabled, sensorsNumber, pauseChecked, serVars,
                 fileVars, bufVars,
                 crashed, refreshed, streamVars,
                 widgetVars>>
  /\ UiReturn

\* GUI.dataLoad before the file dialog (lines 468-472)
DataLoadOpens ==
  IF liveChecked
  THEN /\ recChecked' = FALSE /\ refreshEnabled' = TRUE
       /\ pauseEnabled' = TRUE
       /\ binLen' = 0 /\ txtLines' = 0 /\ recRows' = 0
  ELSE UNCHANGED <<recChecked, refreshEnabled, pauseEnabled, sinkVars>>

\* GUI.dataLoad after the file dialog (lines 475-480); name = "": cancelled
DataLoadChosen(name) ==
  IF name # ""
  THEN loadFileName' = name /\ playEnabled' = TRUE
  ELSE UNCHANGED <<loadFileName, playEnabled>>

\* what GUI.dataLoad leaves alone
DataLoadFrame ==
  /\ last' = "other" /\ wlog' = <<>> /\ dlog' = <<>> /\ designed' = <<>> /\ shifts' = <<>>
  /\ rowsIn' = <<>> /\ serTry' = "none"
  /\ pre' = NoPre
  /\ srcTrace' = <<Snap(serOpen, fileOpen)>>
  /\ UNCHANGED <<liveChecked, playChecked, liveEnabled, recEnabled,
                 sliderEnabled, sensorsEnabled, sensorsNumber, pauseChecked,
                 serVars, fileOpen, loadData, loadDataLen, recVars, bufVars,
                 crashed, refreshed, streamVars, widgetVars>>

\* GUI.dataLoad (lines 467-480) with no tick dispatched while the file
\* dialog is open
DataLoad(name) ==
  /\ crashed = "none"
  /\ DataLoadOpens
  /\ DataLoadChosen(name)
  /\ DataLoadFrame
  /\ UiReturn

\* GUI.start (lines 404-406) on the ticker thread: QThread.start() does
\* nothing when the thread is running
StartThread == tkPc' = (IF tkPc = "idle" THEN "test" ELSE tkPc)

\* GUI.pause (lines 409-418), the Pause action toggled by the user
Pause ==
  /\ crashed = "none" /\ pauseEnabled
  /\ pauseChecked' = ~pauseChecked
  /\ IF pauseChecked'
     THEN running' = FALSE /\ UNCHANGED tkPc
     ELSE running' = TRUE /\ StartThread
  /\ uiStack' = (IF uiStack = <<>> THEN <<>>
                 ELSE SubSeq(uiStack, 1, Len(uiStack) - 1))
  /\ last' = "other" /\ wlog' = <<>> /\ dlog' = <<>> /\ designed' = <<>> /\ shifts' = <<>>
  /\ rowsIn' = <<>> /\ serTry' = "none" /\ pre' = NoPre
  /\ srcTrace' = <<Snap(serOpen, fileOpen)>>
  /\ UNCHANGED <<liveChecked, playChecked, recChecked, liveEnabled, playEnabled,
                 recEnabled, refreshEnabled, sliderEnabled, sensorsEnabled,
                 pauseEnabled, sensorsNumber, serVars, fileVars, recVars,
                 sinkVars, bufVars, crashed, refreshed, streamVars,
                 widgetVars, tkInSlot, queue>>

\* GUI.Playback (lines 483-515), the Playback action toggled by the user
Playback ==
  /\ crashed = "none" /\ playEnabled
  /\ playChecked' = ~playChecked
  /\ Store(IF playChecked' THEN EndRecording(Refresh(Cur)) ELSE Refresh(Cur))
  /\ IF playChecked'
     THEN /\ recChecked' = FALSE /\ sliderEnabled' = TRUE
          /\ liveChecked' = FALSE
          /\ SerialDisconnection
          /\ recEnabled' = TRUE /\ refreshEnabled' = FALSE
          /\ sensorsEnabled' = TRUE /\ pauseEnabled' = TRUE
          /\ loadData' = FileBlob(loadFileName)
          /\ loadDataLen' = LoadDataLen(loadData')
          /\ fileOpen' = FALSE
          \* the sources open on entry, after serialDisconnection (492),
          \* after open (499) and after close (506)
          /\ srcTrace' = <<Snap(serOpen, fileOpen), Snap(serOpen', fileOpen),
                           Snap(serOpen', TRUE), Snap(serOpen', fileOpen')>>
          /\ last' = "refresh"
     ELSE /\ sliderEnabled' = FALSE /\ recEnabled' = FALSE
          /\ pauseEnabled' = FALSE
          /\ srcTrace' = <<Snap(serOpen, fileOpen)>>
          /\ last' = "refresh"
          /\ UNCHANGED <<recChecked, liveChecked, refreshEnabled,
                         sensorsEnabled, serVars, loadData, loadDataLen,
                         fileOpen>>
  /\ comSet' = comSet
  /\ rowsIn' = <<>> /\ serTry' = "none" /\ refreshed' = "yes" /\ pre' = PreRefresh
  /\ UNCHANGED <<liveEnabled, playEnabled, sensorsNumber, pauseChecked,
                 loadFileName,
                 recVars, streamVars,
                 widgetVars>>
  /\ UiReturn

\* GUI.setSensorsNumber (lines 746-759), the spin box changed to num
SetSensorsNumber(num) ==
  /\ crashed = "none" /\ sensorsEnabled /\ num # sensorsNumber
  /\ sensorsNumber' = num
  /\ IF liveChecked
     THEN /\ Store(Refresh(Cur)) /\ refreshed' = "yes" /\ pre' = PreRefresh
          /\ last' = "refresh"
     ELSE /\ UNCHANGED <<bufVars, sinkVars, crashed, refreshed>>
          /\ wlog' = <<>> /\ dlog' = <<>> /\ designed' = <<>> /\ shifts' = <<>>
          /\ pre' = NoPre /\ last' = "other"
  /\ rowsIn' = <<>> /\ serTry' = "none"
  /\ srcTrace' = <<Snap(serOpen, fileOpen)>>
  /\ UNCHANGED <<liveChecked, playChecked, recChecked, liveEnabled, playEnabled,
                 recEnabled, refreshEnabled, sliderEnabled, sensorsEnabled,
                 pauseEnabled, pauseChecked,
                 serVars, fileVars, recVars, streamVars,
                 widgetVars>>
  /\ UiReturn

\* The user drags the scrub control (slider, line 137) to v
MoveSlider(v) ==
  /\ crashed = "none" /\ sliderEnabled /\ v # slider
  /\ slider' = v
  /\ last' = "other" /\ wlog' = <<>> /\ dlog' = <<>> /\ designed' = <<>> /\ shifts' = <<>>
  /\ rowsIn' = <<>> /\ serTry' = "none"
  /\ pre' = NoPre
  /\ srcTrace' = <<Snap(serOpen, fileOpen)>>
  /\ UNCHANGED <<uiVars, serVars, fileVars, recVars, l, Time, Data,
                 DataEnvelope, MA, MA_alpha, Y0, X0, FFT, msg_end, ms_len,
                 sliderpos, sinkVars, crashed, refreshed, streamVars,
                 widgetVars>>
  /\ UiReturn


\* ------------------------------------------------------------ tick
\* Inputs of a tick.  The widgets a tick only reads (protocol version, gain
\* boxes, envelope check box and smoothing spin box) are inputs of the tick.
DigitChar(k) == CHOOSE c \in DecimalDigits : DigitVal(c) = k
\* the fields joined by ';'
RECURSIVE JoinSemi(_)
JoinSemi(fs) ==
  IF Len(fs) = 1 THEN fs[1] ELSE fs[1] \o <<SEMI>> \o JoinSemi(Tail(fs))
\* two well-formed rows: channel i carries 2050+i, or 2053-i
FieldsA == [k \in 1..NCh |-> <<"2", "0", "5", DigitChar(k - 1)>>]
FieldsB == [k \in 1..NCh |-> <<"2", "0", "5", DigitChar(4 - k)>>]
RowA == JoinSemi(FieldsA)
RowB == JoinSemi(FieldsB)
Str1 == RowA \o <<CR, LF>>
Str2 == RowA \o <<CR, LF>> \o RowB \o <<CR, LF>>
\* a row whose last field is not a number
StrNonNumeric == JoinSemi([FieldsA EXCEPT ![NCh] = <<"x">>]) \o <<CR, LF>>
\* a row with one field too many
StrThreeFields == RowA \o <<SEMI, "1", CR, LF>>
\* a row whose first field does not fit 16 bits
StrBig == JoinSemi([FieldsA EXCEPT ![1] = <<"7", "0", "0", "0", "0">>]) \o <<CR, LF>>
\* a row whose last field passes isdigit() but is not a decimal number
StrSup == JoinSemi([FieldsA EXCEPT ![NCh] = <<SUP2>>]) \o <<CR, LF>>
\* the head of a row after an undecodable byte, and the tail of a row
StrHead == <<BADBYTE, "2", "0", "5", "0", SEMI>>
StrTail == <<"5", CR, LF>>
AllChunks ==
  {<<>>, Str1, Str2, StrNonNumeric, StrThreeFields, StrBig, StrSup, StrHead,
   StrTail}
SessionChunks == {<<>>, Str1}
OneGain == {[i \in Channels |-> 1]}
GainInputs ==
  {[i \in Channels |-> 1], [i \in Channels |-> IF i = 0 THEN 2 ELSE 1]}
EnvelopeInputs ==
  {[checked |-> FALSE, value |-> DefaultAlpha], [checked |-> TRUE, value |-> 50]}
SessionEnvelope == {[checked |-> TRUE, value |-> 50]}
SliderInputs == {0, 50, 99}

\* The rows of the text handed to split('\r\n') that end with a separator
\* (when the fragment is stitched, the last one ends at the CR found by rfind)
TerminatedRows(s, msg) ==
  LET parts == SplitCRLF(Stitched(s, msg))
      whole == s.l > StitchMin /\ RFindCR(msg) >= 0
      rows == IF whole THEN parts ELSE SubSeq(parts, 1, Len(parts) - 1)
  IN SelectSeq(rows, LAMBDA r : r # <<>>)

\* A read that closes the port after a failure and does not open it again
SerialReadNoRetry(chunk, readOK, reopen) ==
  IF serOpen /\ readOK
  THEN [msg |-> chunk, open |-> TRUE, try |-> "read"]
  ELSE [msg |-> <<>>, open |-> FALSE, try |-> "closed"]

\* SerialMonitor.serialRead (lines 801-813): the bytes read; a SerialException
\* (port not open, or the read fails: readOK false) is answered by close() and
\* open(), which succeeds (reopen) only on a Serial object that has a port
SerialRead(chunk, readOK, reopen) ==
  IF serOpen /\ readOK
  THEN [msg |-> chunk, open |-> TRUE, try |-> "read"]
  ELSE [msg |-> <<>>, open |-> (reopen /\ serCfg),
        try |-> IF reopen /\ serCfg THEN "reopened" ELSE "failed"]

\* A tick that reads the file whenever one is loaded
PlaybackActiveAnyFile == loadFileName # ""

\* lines 567-568: the tick reads the playback blob
PlaybackActive == playChecked /\ loadFileName # ""

\* The live rows of one tick that were accepted (the write cursor and the
\* new-sample count advanced, lines 725-726) while the Record action was
\* checked
AcceptedRecording(log) ==
  IF recChecked
  THEN Len(SelectSeq(log, LAMBDA e : e.src = "live" /\ e.to # -1))
  ELSE 0

\* GUI.updateListening (lines 518-638)
UpdateListening(chunk, ver, gain, env, readOK, reopen, port) ==
  /\ crashed = "none"
  /\ IF liveChecked
     THEN /\ port = comSet /\ UNCHANGED <<comSet, connect>>
          /\ liveEnabled' = TRUE
     ELSE /\ comSet' = port
          /\ connect' = (IF port # comSet THEN FALSE ELSE connect)
          /\ liveEnabled' = port
  /\ (liveChecked /\ serOpen /\ readOK) \/ chunk = <<>>
  /\ liveChecked \/ (readOK /\ reopen)
  /\ LET playing == PlaybackActive
         \* line 545: the low cut-off is lowered to the high one
         s0 == [Cur EXCEPT !.bp.low = Min({passLow, passHigh})]
         sE == IF env.checked THEN [s0 EXCEPT !.MA_alpha = env.value] ELSE s0
     IN \E sF \in {IF playing
                   THEN ReadFromFile(sE, loadData, loadDataLen, ver, gain, Batch)
                   ELSE sE} :
          LET reading == liveChecked /\ sF.err = "none"
              rd == SerialRead(chunk, readOK, reopen)
          IN \E sS \in {IF reading
                        THEN ReadFromSerial(sF, rd.msg, ver, gain, recChecked)
                        ELSE sF} :
             \E sD \in {IF (playing \/ liveChecked) /\ sS.err = "none"
                        THEN Dsp(sS, sensorsNumber) ELSE sS} :
               /\ \A k \in 1..DataWidth : sD.Time[k] <= MaxTime
               /\ Store([sD EXCEPT !.recRows = @ + AcceptedRecording(sD.wlog)])
               /\ serOpen' = (IF reading THEN rd.open ELSE serOpen)
               /\ serTry' = (IF reading THEN rd.try ELSE "none")
               /\ rowsIn' = (IF reading /\ Len(Decode(rd.msg)) >= 2
                             THEN TerminatedRows(sF, Decode(rd.msg)) ELSE <<>>)
               /\ refreshed' = (IF ~playing THEN refreshed
                                 ELSE IF refreshed = "yes" THEN "used" ELSE "no")
               /\ srcTrace' = <<Snap(serOpen', fileOpen)>>
  /\ last' = "tick" /\ pre' = NoPre
  /\ passLow' = Min({passLow, passHigh}) /\ passEnabled' = bpChecked
  /\ envChecked' = env.checked /\ alphaBox' = env.value
  /\ alphaEnabled' = env.checked
  /\ alphaValid' = (IF env.value = alphaBox THEN alphaValid ELSE env.value)
  /\ UNCHANGED <<bpChecked, passHigh, butterStrict>>
  /\ UiReturn
  /\ UNCHANGED <<liveChecked, playChecked, recChecked, playEnabled,
                 pauseEnabled, pauseChecked,
                 recEnabled, refreshEnabled, sliderEnabled, sensorsEnabled,
                 sensorsNumber, serCfg, serLeak, fileVars, recVars>>

\* A tick of the session: the serial port delivers any of the chunks
Tick ==
  /\ \E chunk \in SessionChunks, ver \in {"v2.0"}, gain \in OneGain,
        env \in SessionEnvelope, readOK \in BOOLEAN, reopen \in BOOLEAN,
        port \in BOOLEAN :
       UpdateListening(chunk, ver, gain, env, readOK, reopen, port)
  /\ UNCHANGED streamVars

Next ==
  \/ Tick
  \/ LiveFromSerial
  \/ RefreshForAction
  \/ DataRecording
  \/ \E name \in SessionFiles \cup {""} : DataLoad(name)
  \/ Playback
  \/ \E num \in 1..NCh : SetSensorsNumber(num)
  \/ \E v \in SliderInputs : MoveSlider(v)

Spec == Init /\ [][Next]_vars

\* ------------------------------------------------ live decoding in detail
\* A Live session on an open port: every kind of chunk, protocol version,
\* gain and envelope setting, with recording and refresh in between.
LiveInit ==
  /\ InitWith(TRUE, TRUE)
  /\ butterStrict = TRUE
  /\ stream = <<>> /\ pending = <<>>

LiveTicks == 3
LiveTick ==
  /\ reads < LiveTicks
  /\ \E chunk \in AllChunks, ver \in {"v2.0", "v1.1"}, gain \in GainInputs,
        env \in SessionEnvelope :
       UpdateListening(chunk, ver, gain, env, TRUE, TRUE, TRUE)
  /\ reads' = reads + 1
  /\ UNCHANGED <<stream, pending, appended, aligned>>

LiveNext ==
  \/ LiveTick
  \/ DataRecording
  \/ RefreshForAction

LiveSpec == LiveInit /\ [][LiveNext]_vars

\* ------------------------------------------------ recording a live session
\* A Live session on an open port that is recorded: well-formed rows, a row
\* with a field that is not a number, a row with a field beyond 16 bits;
\* recording switched on and off by the user, ended by leaving Live mode.
RecTicks == 3
RecChunks == {Str1, Str2, StrNonNumeric, StrBig}
RecTick ==
  /\ reads < RecTicks
  /\ \E chunk \in RecChunks, gain \in OneGain, env \in SessionEnvelope :
       UpdateListening(IF liveChecked /\ serOpen THEN chunk ELSE <<>>, "v2.0",
                       gain, env, TRUE, TRUE, TRUE)
  /\ reads' = reads + 1
  /\ UNCHANGED <<stream, pending, appended, aligned>>

RecNext ==
  \/ RecTick
  \/ DataRecording
  \/ LiveFromSerial
  \/ RefreshForAction

RecSpec == LiveInit /\ [][RecNext]_vars

\* ------------------------------------------------ the filter widgets
\* A Live session on an open port in which the user works the band-pass and
\* envelope widgets between ticks.  No handler is connected to these
\* widgets: a tick reads them (lines 545-565).
WidgetInit ==
  /\ InitWith(TRUE, TRUE)
  /\ butterStrict \in BOOLEAN
  /\ stream = <<>> /\ pending = <<>>

\* QSpinBox and QDoubleSpinBox keep their value inside the range given to
\* setRange (lines 166, 184, 189)
Clamp(v, lo, hi) == Max({lo, Min({v, hi})})

PassInputs == {PassMin, 200, PassMax}
SmoothingInputs == {-20, 50, 150}
WidgetTicks == 3

\* the user checks or unchecks BANDPASS FILTER (lines 177-179)
BandpassToggle ==
  /\ crashed = "none"
  /\ bpChecked' = ~bpChecked
  /\ UNCHANGED <<passLow, passHigh, passEnabled, envChecked, alphaBox,
                 alphaEnabled, butterStrict, alphaValid>>

\* the user sets the low cut-off (lines 183-186)
SetPassLow(v) ==
  /\ crashed = "none" /\ passEnabled
  /\ passLow' = Clamp(v, PassMin, PassMax)
  /\ UNCHANGED <<bpChecked, passHigh, passEnabled, envChecked, alphaBox,
                 alphaEnabled, butterStrict, alphaValid>>

\* the user sets the high cut-off (lines 188-191)
SetPassHigh(v) ==
  /\ crashed = "none" /\ passEnabled
  /\ passHigh' = Clamp(v, PassMin, PassMax)
  /\ UNCHANGED <<bpChecked, passLow, passEnabled, envChecked, alphaBox,
                 alphaEnabled, butterStrict, alphaValid>>

\* the user checks or unchecks ENVELOPE (lines 161-162)
EnvelopeToggle ==
  /\ crashed = "none"
  /\ envChecked' = ~envChecked
  /\ UNCHANGED <<bpChecked, passLow, passHigh, passEnabled, alphaBox,
                 alphaEnabled, butterStrict, alphaValid>>

\* A request to set the smoothing factor to v hundredths (lines 164-167).
\* The spin box is the only place the factor can be set; its range is
\* AlphaMin..AlphaMax.  A value outside the range is clamped (setValue, the
\* arrow keys) or, typed in, given up for the value before (kept true).
SetSmoothing(v, kept) ==
  /\ crashed = "none" /\ alphaEnabled
  /\ alphaBox' = (IF v \in AlphaMin..AlphaMax THEN v
                  ELSE IF kept THEN alphaBox
                  ELSE Clamp(v, AlphaMin, AlphaMax))
  /\ alphaValid' = (IF v \in AlphaMin..AlphaMax THEN v ELSE alphaValid)
  /\ UNCHANGED <<bpChecked, passLow, passHigh, passEnabled, envChecked,
                 alphaEnabled, butterStrict>>

\* what a step on a widget leaves alone
WidgetStep ==
  /\ last' = "other" /\ wlog' = <<>> /\ dlog' = <<>> /\ designed' = <<>> /\ shifts' = <<>>
  /\ rowsIn' = <<>> /\ serTry' = "none" /\ pre' = NoPre
  /\ srcTrace' = <<Snap(serOpen, fileOpen)>>
  /\ UNCHANGED <<uiVars, serVars, fileVars, recVars, sinkVars, bufVars,
                 crashed, refreshed, streamVars>>
  /\ UiReturn

\* a tick that reads the envelope widgets as the user left them
WidgetTick ==
  /\ reads < WidgetTicks
  /\ \E gain \in OneGain :
       UpdateListening(Str1, "v2.0", gain,
                       [checked |-> envChecked, value |-> alphaBox],
                       TRUE, TRUE, TRUE)
  /\ reads' = reads + 1
  /\ UNCHANGED <<stream, pending, appended, aligned>>

WidgetNext ==
  \/ WidgetTick
  \/ BandpassToggle /\ WidgetStep
  \/ \E v \in PassInputs : SetPassLow(v) /\ WidgetStep
  \/ \E v \in PassInputs : SetPassHigh(v) /\ WidgetStep
  \/ EnvelopeToggle /\ WidgetStep
  \/ \E v \in SmoothingInputs, kept \in BOOLEAN : SetSmoothing(v, kept) /\ WidgetStep
  \/ RefreshForAction

WidgetSpec == WidgetInit /\ [][WidgetNext]_vars

\* ------------------------------------------------ the two threads
\* The ticker thread and the UI thread step by step.  A slot is dispatched
\* by the event loop of the UI thread and its effect takes place when it
\* returns; the steps of the ticker thread fall anywhere in between.
ThreadInit ==
  /\ InitWith(TRUE, TRUE)
  /\ butterStrict = TRUE
  /\ stream = <<>> /\ pending = <<>>

QueueMax == 2
ThreadTicks == 3

\* the slot the UI thread is executing; "loop": none, it is in app.exec_()
Top == IF uiStack = <<>> THEN "loop" ELSE uiStack[Len(uiStack)]

\* a step that executes no statement of a slot
NoSlotEffect ==
  UNCHANGED <<uiVars, serVars, fileVars, recVars, sinkVars, bufVars, crashed,
              histVars, streamVars, widgetVars>>

\* An emit that calls the slot in the emitting thread
EmitDirect == queue' = queue /\ tkInSlot' = TRUE

\* bufferUpdated.emit() over the QueuedConnection of lines 373-374: an
\* event is posted to the thread of the GUI object
EmitQueued == queue' = queue + 1 /\ tkInSlot' = FALSE

\* MainRun.run (lines 849-852): the loop test; when it fails run() is left,
\* and the thread is still running (QThread.isRunning) until it has finished
TickerTest ==
  /\ tkPc = "test"
  /\ tkPc' = (IF running THEN "emit" ELSE "exit")
  /\ UNCHANGED <<running, tkInSlot, queue, uiStack>>
  /\ NoSlotEffect

\* run() has returned: the thread finishes
TickerExit ==
  /\ tkPc = "exit"
  /\ tkPc' = "idle"
  /\ UNCHANGED <<running, tkInSlot, queue, uiStack>>
  /\ NoSlotEffect

\* MainRun.run, line 851
TickerEmit ==
  /\ tkPc = "emit" /\ queue < QueueMax
  /\ EmitQueued
  /\ tkPc' = "sleep"
  /\ UNCHANGED <<running, uiStack>>
  /\ NoSlotEffect

\* MainRun.run, line 852: time.sleep returns
TickerWake ==
  /\ tkPc = "sleep"
  /\ tkPc' = "test" /\ tkInSlot' = FALSE
  /\ UNCHANGED <<running, queue, uiStack>>
  /\ NoSlotEffect

\* The event loop takes a posted tick event: from app.exec_() or from the
\* nested loop of the file dialog (line 473), never from inside another slot
DispatchTick ==
  /\ crashed = "none" /\ Top \in {"loop", "dialog"} /\ queue > 0
  /\ reads < ThreadTicks
  /\ queue' = queue - 1 /\ uiStack' = Append(uiStack, "tick")
  /\ UNCHANGED <<tkPc, running, tkInSlot>>
  /\ NoSlotEffect

\* the slots connected to the user's actions (lines 110-133) and whether
\* the action is enabled
UserSlots ==
  {"liveFromSerial", "refreshForAction", "dataRecording", "Playback", "pause"}
SlotEnabled(h) ==
  CASE h = "liveFromSerial" -> liveEnabled
    [] h = "refreshForAction" -> refreshEnabled
    [] h = "dataRecording" -> recEnabled
    [] h = "Playback" -> playEnabled
    [] h = "pause" -> pauseEnabled

\* The event loop takes a user event; the modal file dialog lets none
\* through to the main window
DispatchUser(h) ==
  /\ crashed = "none" /\ Top = "loop" /\ SlotEnabled(h)
  /\ uiStack' = Append(uiStack, h)
  /\ UNCHANGED <<tkPc, running, tkInSlot, queue>>
  /\ NoSlotEffect

\* GUI.dataLoad up to the file dialog, which runs an event loop of its own
DialogOpens ==
  /\ crashed = "none" /\ Top = "loop"
  /\ DataLoadOpens
  /\ UNCHANGED <<loadFileName, playEnabled>>
  /\ DataLoadFrame
  /\ uiStack' = Append(uiStack, "dialog")
  /\ UNCHANGED <<tkPc, running, tkInSlot, queue>>

\* the file dialog returns and GUI.dataLoad runs to its end
DialogCloses(name) ==
  /\ crashed = "none" /\ Top = "dialog"
  /\ DataLoadChosen(name)
  /\ UNCHANGED <<recChecked, refreshEnabled, pauseEnabled, sinkVars>>
  /\ DataLoadFrame
  /\ UiReturn

\* the tick dispatched last runs to its end
ThreadTick ==
  /\ Top = "tick"
  /\ \E gain \in OneGain, env \in SessionEnvelope :
       UpdateListening(IF liveChecked /\ serOpen THEN Str1 ELSE <<>>, "v2.0",
                       gain, env, TRUE, TRUE, TRUE)
  /\ reads' = reads + 1
  /\ UNCHANGED <<stream, pending, appended, aligned>>

ThreadNext ==
  \/ TickerTest
  \/ TickerExit
  \/ TickerEmit
  \/ TickerWake
  \/ DispatchTick
  \/ \E h \in UserSlots : DispatchUser(h)
  \/ DialogOpens
  \/ \E name \in {"five", ""} : DialogCloses(name)
  \/ ThreadTick
  \/ Top = "liveFromSerial" /\ LiveFromSerial
  \/ Top = "refreshForAction" /\ RefreshForAction
  \/ Top = "dataRecording" /\ DataRecording
  \/ Top = "Playback" /\ Playback
  \/ Top = "pause" /\ Pause

ThreadSpec == ThreadInit /\ [][ThreadNext]_vars

\* ------------------------------------------------ a stream cut into reads
\* The device sends up to StreamRows well-formed rows; each tick reads the
\* next n bytes of what has not been read yet, the read ending on a row
\* boundary, inside the first field, after the first separator or between
\* CR and LF.
StreamRows == 4
CutOffsets == {0, 3, 5, Len(RowA) + 1}
StreamRow(j) == IF j % 2 = 1 THEN RowA ELSE RowB
RECURSIVE StreamBytes(_)
StreamBytes(rows) ==
  IF rows = <<>> THEN <<>> ELSE Head(rows) \o <<CR, LF>> \o StreamBytes(Tail(rows))

StreamInit ==
  /\ InitWith(TRUE, TRUE)
  /\ butterStrict = TRUE
  /\ \E k \in 1..StreamRows : stream = [j \in 1..k |-> StreamRow(j)]
  /\ pending = StreamBytes(stream)

StreamTick ==
  /\ \E n \in 1..Len(pending) :
       /\ ((Len(StreamBytes(stream)) - Len(pending) + n) % (Len(RowA) + 2))
            \in CutOffsets
       /\ \E gain \in OneGain, env \in SessionEnvelope :
            UpdateListening(SubSeq(pending, 1, n), "v2.0", gain, env,
                            TRUE, TRUE, TRUE)
       /\ pending' = SubSeq(pending, n + 1, Len(pending))
       /\ aligned' = (aligned /\ (reads < 2 => pending[n] = LF))
  /\ appended' = appended \o [k \in 1..Len(wlog') |-> wlog'[k].row]
  /\ reads' = reads + 1
  /\ UNCHANGED stream

StreamNext == StreamTick

StreamSpec == StreamInit /\ [][StreamNext]_vars

\* ------------------------------------------------------------ properties
Sorted(q) == \A k \in 1..(Len(q) - 1) : q[k] <= q[k + 1]

NonNegInt(f) == f # <<>> /\ \A k \in 1..Len(f) : f[k] \in DecimalDigits
IsPrefix(p, q) == Len(p) <= Len(q) /\ SubSeq(q, 1, Len(p)) = p

\* C1 (as stated): when the first two reads end on a row boundary, the rows
\* stored so far are the first rows of the stream, each once and in order,
\* and all of them once the whole stream has been read.
C1_RowsOncePerCut ==
  (aligned /\ crashed = "none") =>
    /\ IsPrefix(appended, [j \in 1..Len(stream) |-> SplitSemi(stream[j])])
    /\ (reads > 0 /\ pending = <<>>) => Len(appended) = Len(stream)

\* C2 (as stated): a live row of the right field count with a field that is
\* not a non-negative decimal integer stores 0 for every channel, advances
\* the write cursor by one and the timestamp by dt.
C2_BadRowAllZero ==
  \A k \in 1..Len(wlog) :
    LET e == wlog[k]
    IN (e.src = "live" /\ \E i \in Channels : ~NonNegInt(e.row[i + 1])) =>
         /\ e.chans = Channels
         /\ \A i \in Channels : e.vals[i] = 0
         /\ e.to = e.at + 1
         /\ e.tat = e.at

\* C3 (as stated): every terminated row of a read, whatever its field count,
\* takes one slot of the ring.
C3_NoRowDropped ==
  (last = "tick" /\ crashed = "none") =>
    \A k \in 1..Len(rowsIn) :
      \E j \in 1..Len(wlog) :
        wlog[j].row = SplitSemi(rowsIn[k]) /\ wlog[j].to = wlog[j].at + 1

\* C4: the write cursor stays in 0..dataWidth; every row of a tick is written
\* at one index of 0..dataWidth-1, a cursor equal to dataWidth is reset to 0
\* before the write, an accepted row writes all channels and the timestamp at
\* that index and advances the cursor by exactly one, and the rows of a tick
\* follow each other without a gap.
C4_WriteCursor ==
  /\ l \in 0..DataWidth
  /\ \A k \in 1..Len(wlog) :
       LET e == wlog[k]
       IN /\ e.at \in Slots
          /\ e.from \in 0..DataWidth
          /\ e.at = (IF e.from = DataWidth \/ e.restart THEN 0 ELSE e.from)
          /\ e.to # -1 => e.chans = Channels /\ e.tat = e.at /\ e.to = e.at + 1
          /\ k > 1 => e.from = wlog[k - 1].to
  /\ (crashed = "none" /\ wlog # <<>>) => l = wlog[Len(wlog)].to

\* a tick that wrote a row after the cursor had reached dataWidth
C4_Witness ==
  /\ crashed = "none" /\ last = "tick"
  /\ \E k \in 1..Len(wlog) :
       wlog[k].from = DataWidth /\ wlog[k].at = 0 /\ wlog[k].to = 1

\* C5: while the session runs, the unrolled view of every channel and of the
\* timestamps has dataWidth entries and the unrolled timestamps never decrease.
C5_UnrolledInTimeOrder ==
  crashed = "none" =>
    /\ Len(Unrolled(Time, l)) = DataWidth
    /\ \A i \in Channels : Len(Unrolled(Data[i], l)) = DataWidth
    /\ Sorted(Unrolled(Time, l))

\* the ring has wrapped: the newest timestamp sits below an older one in
\* storage order, and the stored array itself is no longer sorted
C5_Witness ==
  /\ crashed = "none" /\ last = "tick" /\ l \in 1..(DataWidth - 1)
  /\ ~Sorted(Time)
  /\ \E k \in 1..Len(wlog) : wlog[k].from = DataWidth

\* C6: Live and Playback are never both active, the serial port is open only
\* while Live is active, no port or file handle is left open behind the
\* session's back, and at no statement of a mode switch are the port and the
\* playback file open together.
C6_OneSource ==
  /\ ~(liveChecked /\ playChecked)
  /\ ~(serOpen /\ fileOpen)
  /\ serOpen => liveChecked
  /\ ~serLeak
  /\ ~fileOpen
  /\ \A k \in 1..Len(srcTrace) : ~(srcTrace[k].ser /\ srcTrace[k].file)

\* Playback entered while the port was open: the port was closed, then the
\* file opened and closed again
C6_Witness ==
  /\ playChecked /\ Len(srcTrace) = 4
  /\ srcTrace[1].ser /\ ~srcTrace[2].ser /\ srcTrace[3].file /\ ~srcTrace[4].file

ZeroState ==
  /\ l = 0 /\ ms_len = 0
  /\ Time = ZeroRow /\ Data = ZeroData /\ DataEnvelope = ZeroData
  /\ MA = ZeroMA /\ Y0 = ZeroChan /\ X0 = ZeroChan /\ FFT = ZeroChan
  /\ MA_alpha = DefaultAlpha

\* C7: after a handler that calls refresh(), the buffers, the envelope state,
\* the spectrum, the write cursor and the new-sample count are those of a new
\* session.
C7_RefreshZero == last = "refresh" => ZeroState

\* refresh() called when every buffer and every filter state was non-zero
C7_Witness == last = "refresh" /\ pre.dirty /\ ZeroState

\* C8 (as stated): after refresh() the playback cursor is 0, and the first
\* record decoded by the next playback tick is record 0.
C8_RefreshResetsPlaybackCursor ==
  /\ last = "refresh" => sliderpos = 0
  /\ (refreshed = "used" /\ dlog # <<>>) => dlog[1] = 0

\* C9 (as stated): a scrub-seek resets the write cursor to 0, moves the
\* playback cursor to slider*loadDataLen/100, and the record decoded next is
\* the one at that index.
C9_SeekRefreshesThenJumps ==
  \A k \in 1..Len(wlog) :
    wlog[k].seek =>
      /\ wlog[k].tat = 0
      /\ wlog[k].ts = (wlog[k].sl * loadDataLen) \div SliderScale
      /\ k < Len(dlog) => dlog[k + 1] = wlog[k].ts

\* C10 (as stated): loadDataLen is the number of whole records of the blob,
\* every decoded index lies in 0..loadDataLen-1 with its bytes inside the
\* blob, and a playback tick never fails.
C10_PlaybackReadsInsideBlob ==
  /\ loadDataLen = Len(loadData) \div RecBytes
  /\ \A k \in 1..Len(dlog) :
       /\ dlog[k] \in 0..(loadDataLen - 1)
       /\ (dlog[k] + 1) * RecBytes <= Len(loadData)
  /\ playChecked => crashed = "none"

\* ------------------------------------------------ recording
\* The rows of the last tick that were appended to the ring buffer
Appended(log) == SelectSeq(log, LAMBDA e : e.to # -1)
\* The raw value the decoder takes from one field of a live row
RawField(fld) == IF IsDigit(fld) /\ IntParses(fld) THEN IntOf(fld) ELSE 0

\* The number of live rows of a tick that were accepted
AcceptedLive(log) == Len(SelectSeq(Appended(log), LAMBDA e : e.src = "live"))

\* C11: in a tick during which recording is active, every row appended to
\* the ring buffer, from the serial port or from the playback blob, is also
\* written to the recording files.
C11_AppendedRowsRecorded ==
  (last = "tick" /\ recChecked /\ crashed = "none")
    => \A k \in 1..Len(Appended(wlog)) : Appended(wlog)[k].packed # <<>>

\* C12: the binary log and the text log are both open or both closed in
\* every state, both are open whenever the Record action is checked, and a
\* row is written only while both are open.
C12_LogsOpenTogether ==
  /\ recBinOpen = recTxtOpen
  /\ recChecked => (recBinOpen /\ recTxtOpen)
  /\ \A k \in 1..Len(wlog) :
       wlog[k].packed # <<>> => (recBinOpen /\ recTxtOpen)

C12_Witness ==
  /\ last = "tick" /\ recChecked /\ recBinOpen /\ recTxtOpen
  /\ \E k \in 1..Len(wlog) : wlog[k].packed # <<>>

\* C13: while recording in Live mode every accepted row appends one record
\* of NCh unsigned 16-bit raw values in channel order to the binary log and
\* one line to the text log, in arrival order; at every tick boundary the
\* binary log holds RecBytes bytes per row accepted while recording; and
\* while recording goes on the logs never shrink.
C13_RecordPerAcceptedRow ==
  /\ [](/\ binLen = RecBytes * recRows
        /\ txtLines = recRows
        /\ (last = "tick" /\ recChecked /\ liveChecked) =>
             \A k \in 1..Len(Appended(wlog)) :
               LET e == Appended(wlog)[k]
               IN /\ Len(e.packed) = NCh
                  /\ \A c \in 1..NCh :
                       /\ e.packed[c] = RawField(e.row[c])
                       /\ e.packed[c] \in 0..U16Max)
  /\ [][(recChecked /\ recChecked') =>
          /\ binLen' - binLen = RecBytes * AcceptedLive(wlog')
          /\ txtLines' - txtLines = AcceptedLive(wlog')]_vars

C13_Witness ==
  /\ last = "tick" /\ recChecked /\ liveChecked /\ crashed = "none"
  /\ binLen >= 2 * RecBytes
  /\ \E k \in 1..Len(Appended(wlog)) :
       /\ Appended(wlog)[k].packed # <<>>
       /\ \E c \in 1..NCh : ~IsDigit(Appended(wlog)[k].row[c])

\* ------------------------------------------------ stopping a source
\* C14: the step that unchecks Live leaves the port closed, the step that
\* unchecks Playback leaves the file closed, and a tick that runs while
\* neither Live nor Playback is checked reads nothing, appends no row and
\* leaves the write cursor, the new-sample count and the ring buffers as
\* they were.
C14_StoppedSourceIsSilent ==
  /\ []((~liveChecked /\ ~playChecked) => (~serOpen /\ ~fileOpen))
  /\ [][(liveChecked /\ ~liveChecked') => ~serOpen']_vars
  /\ [][(playChecked /\ ~playChecked') => ~fileOpen']_vars
  /\ [][(last' = "tick" /\ ~liveChecked /\ ~playChecked) =>
          /\ wlog' = <<>> /\ dlog' = <<>> /\ rowsIn' = <<>>
          /\ l' = l /\ ms_len' = ms_len
          /\ Data' = Data /\ Time' = Time
          /\ ~serOpen' /\ ~fileOpen']_vars

\* A tick after Playback was started and stopped again
C14_Witness ==
  /\ last = "tick" /\ ~liveChecked /\ ~playChecked
  /\ loadFileName # "" /\ loadDataLen > 0 /\ serCfg

\* ------------------------------------------------ errors
\* C16: Playback is entered only with a file that is not empty and whose
\* length is a whole number of records; a tick of Playback decodes only from
\* such a file.
C16_BadFileRejected ==
  /\ playChecked => (loadData # <<>> /\ Len(loadData) % RecBytes = 0)
  /\ (last = "tick" /\ dlog # <<>>) => Len(loadData) % RecBytes = 0

\* C17: no row of the live stream, whatever its content and with or without
\* recording, raises an error out of the tick: after every Live tick the
\* handler has completed and every row of the read was handled.
C17_RowsNeverRaise ==
  (last = "tick" /\ liveChecked) =>
    /\ crashed \notin {"ValueError", "struct.error"}
    /\ \A k \in 1..Len(wlog) : wlog[k].to # -1

\* C18: a Live tick whose read fails, the port being closed or the read
\* raising SerialException, raises no error and yields no row; the ring
\* buffers, the write cursor, the new-sample count and the mode are
\* unchanged; and every such tick tries to open the port again.
C18_FailedReadIsRetried ==
  /\ [][(last' = "tick" /\ liveChecked /\ serTry' # "read") =>
          /\ crashed' = "none"
          /\ wlog' = <<>> /\ rowsIn' = <<>>
          /\ l' = l /\ ms_len' = ms_len
          /\ Data' = Data /\ Time' = Time /\ DataEnvelope' = DataEnvelope
          /\ liveChecked' /\ ~playChecked'
          /\ serTry' \in {"reopened", "failed"}]_vars
  /\ [][(last' = "tick" /\ liveChecked /\ ~serOpen) =>
          serTry' \in {"reopened", "failed"}]_vars
  /\ []((last = "tick" /\ serTry = "reopened") => serOpen)

\* A Live tick whose read failed after rows had been stored, the open that
\* followed failing too
C18_Witness ==
  /\ last = "tick" /\ liveChecked /\ serTry = "failed" /\ l > 0
  /\ crashed = "none"

\* ------------------------------------------------ filter settings
\* C19: with BANDPASS FILTER checked, a tick whose cut-offs satisfy
\* low >= high or fs <= 2*high leaves the window alone: no filter is
\* designed and no error is raised.
C19_EmptyBandIsPassthrough ==
  (/\ last = "tick" /\ liveChecked /\ bpChecked
   /\ (passLow >= passHigh \/ Fs <= 2 * passHigh))
    => (designed = <<>> /\ crashed = "none")

\* C20: the smoothing factor the envelope detector used in a tick is the
\* last value inside the range that a request asked for: a request outside
\* the range changes nothing, a request inside it takes effect and stays in
\* effect.
C20_SmoothingFactorIsLastValid ==
  (last = "tick" /\ liveChecked /\ crashed = "none") => MA_alpha = alphaValid

\* ------------------------------------------------ threads
\* the slots whose executions must not overlap
Exclusive ==
  {"tick", "refreshForAction", "liveFromSerial", "Playback", "dataRecording"}

\* C15: under every interleaving of the ticker thread and the UI thread, at
\* most one execution of the tick, a refresh, a mode switch or the recording
\* handler is in progress, and the ticker thread never executes the tick: it
\* only posts the tick event.
C15_TickNotReentrant ==
  /\ Cardinality({k \in 1..Len(uiStack) : uiStack[k] \in Exclusive}) <= 1
  /\ ~tkInSlot
  /\ queue \in 0..QueueMax

\* The ticker thread has posted a tick event while the UI thread is
\* executing a tick, after a refresh was executed: the event waits
C15_Witness ==
  /\ uiStack = <<"tick">> /\ tkPc = "sleep" /\ queue > 0
  /\ reads > 0 /\ refreshed = "yes"

\* ------------------------------------------------ scaling
\* C21: a valid live row decoded under protocol v1.1 is stored, channel by
\* channel, as (raw - 2048) * (3.25/4.094) / gain.
C21_ScaledWithDocumentedConstants ==
  (last = "tick" /\ crashed = "none") =>
    \A k \in 1..Len(wlog) :
      LET e == wlog[k]
      IN (/\ e.src = "live" /\ e.ver = "v1.1" /\ e.to # -1
          /\ \A c \in 1..NCh : NonNegInt(e.row[c])) =>
           \A i \in Channels :
             e.vals[i] = ((IntOf(e.row[i + 1]) - 2048) * CoefNum)
                           \div (4094 * e.gain[i])

\* ------------------------------------------------ playback slots
\* The record of the loaded blob at index k, unpacked
RecordAt(k) == Unpack(PySlice(loadData, k * RecBytes, (k + 1) * RecBytes))

\* C22: every slot written by a Playback iteration, the iterations that seek
\* or restart included, holds the scaled channels of the record whose index
\* is its timestamp.
C22_SlotHoldsItsRecord ==
  (last = "tick" /\ crashed = "none") =>
    \A k \in 1..Len(wlog) :
      LET e == wlog[k]
      IN e.src = "file" =>
           /\ e.ts \in 0..(loadDataLen - 1)
           /\ \A i \in Channels :
                e.vals[i] = Scaled(RecordAt(e.ts)[i], e.ver, e.gain[i])

\* ------------------------------------------------ envelope detector
\* A session that exercises the envelope detector: rows that rise and fall,
\* every smoothing factor the spin box can hold at its ends and in between,
\* Live and Playback, with refreshes and seeks in between.
EnvTicks == 3
\* one row more than the ring buffer holds, delivered by a single read
RECURSIVE RowsOf(_)
RowsOf(k) == IF k = 0 THEN <<>> ELSE RowA \o <<CR, LF>> \o RowsOf(k - 1)
StrFlood == RowsOf(DataWidth + 1)
EnvChunks == {Str1, Str2, StrFlood}
SmoothingEnds ==
  {[checked |-> FALSE, value |-> DefaultAlpha], [checked |-> TRUE, value |-> AlphaMin],
   [checked |-> TRUE, value |-> 50], [checked |-> TRUE, value |-> AlphaMax]}

EnvTick ==
  /\ reads < EnvTicks
  /\ \E chunk \in EnvChunks, env \in SmoothingEnds :
       UpdateListening(IF liveChecked /\ serOpen THEN chunk ELSE <<>>, "v2.0",
                       [i \in Channels |-> 1], env, TRUE, TRUE, TRUE)
  /\ reads' = reads + 1
  /\ UNCHANGED <<stream, pending, appended, aligned>>

EnvNext ==
  \/ EnvTick
  \/ LiveFromSerial
  \/ RefreshForAction
  \/ DataLoad("five")
  \/ Playback
  \/ \E v \in SliderInputs : MoveSlider(v)

EnvSpec == LiveInit /\ [][EnvNext]_vars

\* C23: the three accumulators of every channel and every entry of every
\* envelope series are never negative, whatever the samples, refreshes and
\* seeks that came before.
C23_EnvelopeNonNegative ==
  \A i \in Channels :
    /\ \A k \in 1..3 : MA[i][k] >= 0
    /\ \A k \in 1..DataWidth : DataEnvelope[i][k] >= 0

\* the detector has rectified a negative high-pass output into a positive
\* envelope entry
C23_Witness ==
  \E i \in Channels :
    /\ Y0[i] < 0 /\ MA[i][1] > 0
    /\ \E k \in 1..DataWidth : DataEnvelope[i][k] > 0

\* ------------------------------------------------ envelope alignment
\* C24: every tick completes its DSP pass, and in it the envelope of every
\* active channel is shifted and recomputed by exactly the number of rows
\* the tick appended to the ring buffer.
C24_EnvelopeShiftMatchesRows ==
  (last = "tick" /\ (liveChecked \/ PlaybackActive)) =>
    /\ crashed = "none"
    /\ \A k \in 1..Len(shifts) : shifts[k] = Len(Appended(wlog))

\* ------------------------------------------------ stitching by call count
\* The rows with the right field count in a text, split into fields
FieldRows(text) ==
  LET rows == SplitCRLF(text)
  IN SelectSeq([k \in 1..Len(rows) |-> SplitSemi(rows[k])],
               LAMBDA f : Len(f) = NCh)

\* C25: the first two decode calls of a session decode the bytes read as
\* they are; every later call decodes the retained fragment followed by the
\* bytes read up to the last carriage return, wherever the write cursor is.
C25_StitchedFromThirdCall ==
  [][LET chunk == SubSeq(pending, 1, Len(pending) - Len(pending'))
         kept == IF msg_end.kind = "str" THEN msg_end.s ELSE <<>>
         text == IF reads >= 2
                 THEN kept \o PySlice(chunk, 0, RFindCR(chunk))
                 ELSE chunk
     IN (reads' = reads + 1 /\ Len(chunk) >= 2 /\ crashed' = "none") =>
          [k \in 1..Len(wlog') |-> wlog'[k].row] = FieldRows(text)]_vars

\* ------------------------------------------------ pause and the ticker
\* C26: whenever the session has been left unpaused the ticker thread is
\* alive: an unpause finds the thread running or starts it again.
C26_UnpausedTickerAlive ==
  (Top # "pause" /\ ~pauseChecked) => tkPc # "idle"

\* ------------------------------------------------ recording handles
\* C27: whenever the Record action is unchecked neither the binary log nor
\* the text log is open.
C27_NoLogOpenWhenNotRecording ==
  ~recChecked => (~recBinOpen /\ ~recTxtOpen)

\* ------------------------------------------------ playback passes
\* Playback left to itself: a file of three or of five records is loaded and
\* played, pass after pass, with no slider input and no refresh by the user.
PlayFiles == {"three", "five"}
PlayTick ==
  /\ \E env \in EnvelopeInputs :
       UpdateListening(<<>>, "v2.0", [i \in Channels |-> 1], env, TRUE, TRUE, TRUE)
  /\ UNCHANGED streamVars

PlayNext ==
  \/ PlayTick
  \/ \E name \in PlayFiles : DataLoad(name)
  \/ Playback
  \/ \E num \in 1..NCh : SetSensorsNumber(num)

PlaySpec == Init /\ [][PlayNext]_vars

\* C28: in a Playback tick without slider input every iteration decodes the
\* record that follows the one decoded before it, without a seek, and the
\* pass restarts at record 0 only after record n-1 has been decoded.
C28_PassDecodesEveryRecord ==
  [][(last' = "tick" /\ PlaybackActive /\ loadDataLen >= 2 /\ crashed' = "none") =>
       \A k \in 1..Len(wlog') :
         LET e == wlog'[k]
             next == IF k = 1 THEN sliderpos ELSE wlog'[k - 1].ts + 1
         IN /\ ~e.seek
            /\ e.rec = (IF e.restart THEN 0 ELSE next)
            /\ e.restart => next = loadDataLen]_vars

\* ------------------------------------------------ spectrum
\* C29: a Live tick blends into the spectral estimate of every active
\* channel, with weight one half, the spectrum of the FftN newest samples of
\* the filtered unrolled window, the newest sample included (of the
\* spectrum the model keeps the bin at frequency 0).
C29_SpectrumOfNewestSamples ==
  [][(reads' = reads + 1 /\ liveChecked /\ crashed' = "none") =>
       \A i \in 0..(sensorsNumber - 1) :
         LET bp == [on |-> bpChecked', low |-> passLow', high |-> passHigh',
                    strict |-> butterStrict']
             U == Filtered(Unrolled(Data'[i], l'), bp).y
             Y == Abs(SumSeq(PySlice(U, DataWidth - FftN, DataWidth))) \div FftN
         IN FFT'[i] = (Y + FFT[i]) \div 2]_vars

\* ------------------------------------------------ display of the window
\* C30: after a Live tick at which fewer than dataWidth samples have been
\* received since the last reset, the series handed to the raw plot of every
\* active channel leaves out a leading segment of the filtered window.
C30_TailHiddenUntilWindowFull ==
  (last = "tick" /\ liveChecked /\ crashed = "none" /\ wlog # <<>>
     /\ PyAt(Time, l - 1) < DataWidth) =>
    \A i \in 0..(sensorsNumber - 1) :
      Len(Displayed(Data[i], l,
                    [on |-> bpChecked, low |-> passLow, high |-> passHigh,
                     strict |-> butterStrict])) < DataWidth

\* ------------------------------------------------ record and play back
\* C31: the record written for a live row, played back with the protocol
\* version and the gains of the live session, gives on every channel the
\* value the live session stored for that row, rows with a non-numeric
\* field included.
C31_PlaybackRepeatsLive ==
  \A k \in 1..Len(wlog) :
    LET e == wlog[k]
    IN (e.src = "live" /\ e.packed # <<>>) =>
         PlaybackValues(StructPack(e.packed), e.ver, e.gain) = e.vals

====
